---- MODULE Spec2Model ----
(***************************************************************************)
(* Model of the deep-research agent: the job life cycle implemented by     *)
(* executeDeepResearch (src/lib/tools/deep-research.ts), the text          *)
(* extraction it applies to a completed response, the run status kept by   *)
(* the chat endpoint and the chat page, the streaming helpers with the     *)
(* part identities, deepResearchTool.execute with its section statuses and *)
(* log events, logEvent of the server logger, the requests to POST         *)
(* /api/chat sharing the OpenAI key, two runs invoking the tool, and the   *)
(* request loggers of the page with the console they intercept.            *)
(*                                                                         *)
(* Time is in milliseconds, counted from the moment the job's first        *)
(* submission request is issued (now = 0).  Timers are taken to fire       *)
(* exactly after their delay; network calls take a latency chosen by the   *)
(* environment.                                                            *)
(***************************************************************************)
EXTENDS Integers, Sequences, FiniteSets, TLC

\* ---------------------------------------------------------------------------
\* Program constants
\* ---------------------------------------------------------------------------
maxRetries == 3

POLL_INTERVAL_MS == 5000

MAX_POLL_TIME_MS == 600000

\* ---------------------------------------------------------------------------
\* Bounds of the model
\* ---------------------------------------------------------------------------
\* in-progress answers the service may give to the polls of one attempt
MaxPolls == 2

\* items of the output array of a response body
MaxItems == 2

\* parts of the content of one output item
MaxParts == 2

\* sections of the outline of one run
MaxSections == 5

\* characters of a runId or sectionId
MaxIdLen == 2

\* sections of an outline
MaxOutlineLen == 2

\* invocations of the deepResearch tool
MaxInvocations == 2

\* calls of logEvent
MaxLogCalls == 2

\* calls made on the request loggers and on the console
MaxClientCalls == 4

\* a call may return this long before the polling deadline is reached
EdgeSlack == 1

\* latency of a call that outlasts the polling deadline
SlowLatency == 700000

\* latency of a call that returns just inside the polling deadline
EdgeLatency == MAX_POLL_TIME_MS - POLL_INTERVAL_MS - EdgeSlack

Latencies == {0, EdgeLatency, SlowLatency}

HttpErrorCodes == {500}

\* ---------------------------------------------------------------------------
\* State
\* ---------------------------------------------------------------------------
VARIABLES
  pc,             \* position of executeDeepResearch
  attempt,        \* loop variable of the retry loop
  now,            \* Date.now(), relative to the first submission request
  pollStartTime,  \* Date.now() taken when the submission response arrived
  pollData,       \* last response body of the current attempt
  responseId,     \* submitData.id of the current attempt
  pollCount,      \* polls of the current attempt
  thrown,         \* the error travelling to the catch block
  result,         \* the DeepResearchResult returned
  submits,        \* history: submission requests issued
  okSubmits,      \* history: submission requests answered 2xx
  polls,          \* history: poll requests issued
  errors,         \* history: the error caught in each attempt
  waits,          \* history: the backoff wait at the head of each attempt
  cancelled       \* the caller has given up the run

\* extraction applied to one response body
VARIABLES
  exPc,           \* "input", "build", "extracted" or "threw"
  exData,         \* the response body
  exContent       \* the content extracted from it

\* one chat request: the chat endpoint, the tool executions, the chat page
VARIABLES
  reqPc,          \* "idle", "submitted", "rejected", "streaming", "served"
                  \* or "finished"
  keys,           \* OPENAI_API_KEY and TAVILY_API_KEY as POST read them
  response,       \* the response of POST
  phaseLog,       \* history: the phases POST logged as chat.phase
  outline,        \* numbers of the sections of the run's outline
  called,         \* sections whose deepResearch call reached onChunk
  received,       \* sections whose tool call reached the page's onToolCall
  jobStatus,      \* last SectionStatus emitted by each tool execution
  outlineEmitted, \* the flag of the chat endpoint
  srvRunStatus,   \* RunStatus parts created by the chat endpoint
  runStatus,      \* runStatus of the chat page
  sections        \* section map of the chat page

\* the streaming helpers applied to two events
VARIABLES
  evPc,           \* "first", "second" or "both": the events built so far
  evA,            \* the data part of the first event
  evB             \* the data part of the second event

\* invocations of deepResearchTool.execute, one after the other
VARIABLES
  toolPc,         \* "idle", "keycheck", "job" or "save"
  openaiApiKey,   \* _openaiApiKey, "" while unset
  toolArgs,       \* the parameters of the invocation in progress
  toolResult,     \* the result executeDeepResearch returned to it
  emitted,        \* history: the SectionStatus parts created
  toolLog,        \* history: the events logToolExecution handed to logEvent
  saved,          \* history: the reports handed to saveMarkdownReport
  toolReturn,     \* what the last finished invocation returned or threw
  returnedJobs,   \* history: the results executeDeepResearch returned
  apiCalls,       \* history: the requests sent to the OpenAI API, with the key used
  invocations     \* history: invocations started

\* calls of logEvent of the server logger
VARIABLES
  logPc,          \* "idle", "check", "mkdir", "append", "echo" or "caught"
  logEnv,         \* ENABLE_DEV_LOGGING and DEV_LOG_ECHO at the call
  logArg,         \* the event passed to logEvent, with the place of the call
  logFile,        \* the lines appended to the log file
  logConsole,     \* what logEvent wrote to the console
  logResult,      \* how the promise of the last call settled
  logCalls        \* history: calls made

\* two chat requests (runs), each invoking the deepResearch tool
VARIABLES
  isoArgs,        \* the parameters each run passed to the tool
  isoParts        \* the data part of the 'running' SectionStatus of each run

\* the request loggers of the page and the console they intercept
VARIABLES
  console,         \* the console methods: the loggers whose interceptors wrap
                   \* the native methods, innermost first
  originalConsole, \* originalConsole of each logger; Null when not installed
  events,          \* the event queue of each logger
  consoleCounts,   \* consoleCounts of each logger
  delivered,       \* history: the payloads sent to /api/dev-log
  flushes,         \* history: the calls of flush of each logger
  clientCalls      \* history: calls made on the loggers and the console

jobVars == <<pc, attempt, now, pollStartTime, pollData, responseId, pollCount,
             thrown, result, submits, okSubmits, polls, errors, waits, cancelled>>

extractVars == <<exPc, exData, exContent>>

runVars == <<reqPc, keys, response, phaseLog, outline, called, received, jobStatus, outlineEmitted,
             srvRunStatus, runStatus, sections>>

eventVars == <<evPc, evA, evB>>

toolVars == <<toolPc, openaiApiKey, toolArgs, toolResult, emitted, toolLog, saved,
              toolReturn, returnedJobs, apiCalls, invocations>>

logVars == <<logPc, logEnv, logArg, logFile, logConsole, logResult, logCalls>>

isoVars == <<isoArgs, isoParts>>

clientVars == <<console, originalConsole, events, consoleCounts, delivered, flushes,
                clientCalls>>

vars == <<jobVars, extractVars, runVars, eventVars, toolVars, logVars, isoVars,
          clientVars>>

NoError == [kind |-> "none", message |-> ""]

NoResult == [status |-> "pending"]

NoData == [status |-> "none"]

\* ---------------------------------------------------------------------------
\* Responses of the external service
\* ---------------------------------------------------------------------------
RespIds == <<"resp_1", "resp_2", "resp_3", "resp_4">>

RespId(n) == IF n \in DOMAIN RespIds THEN RespIds[n] ELSE "resp_n"

\* bodies with status 'completed' the job model draws from
SampleBodies ==
  { [status |-> "completed", output_text |-> "T"],
    [status |-> "completed", output_text |-> "",
     output |-> << [type |-> "message",
                    content |-> << [type |-> "output_text", text |-> "A"] >>] >>],
    [status |-> "completed",
     output |-> << [type |-> "reasoning"],
                   [type |-> "message", content |-> << [type |-> "refusal", text |-> "R"] >>],
                   [type |-> "message", content |-> << [type |-> "text", text |-> "B"] >>] >>],
    [status |-> "completed",
     output |-> << [type |-> "message", content |-> << >>] >>],
    [status |-> "completed"] }

\* bodies the service can answer to a submission or to a poll
Responses ==
  { [status |-> s] : s \in {"queued", "in_progress", "failed", "cancelled"} }
    \cup { [status |-> s, error |-> [message |-> "quota exceeded"]] : s \in {"failed", "cancelled"} }
    \cup SampleBodies

InProgressAlways(data) == TRUE

InProgress(data) == data.status = "queued" \/ data.status = "in_progress"

\* ---------------------------------------------------------------------------
\* Error messages
\* ---------------------------------------------------------------------------
SubmitErrorMessage(code) ==
  CASE code = 429 -> "OpenAI API error (429): {}"
    [] code = 500 -> "OpenAI API error (500): {}"
    [] OTHER -> "OpenAI API error"

PollErrorMessage(code) ==
  CASE code = 429 -> "OpenAI poll error (429): {}"
    [] code = 500 -> "OpenAI poll error (500): {}"
    [] OTHER -> "OpenAI poll error"

TimeoutMessage == "Deep research timed out after 600 seconds"

NoContentMessage == "No content returned from OpenAI deep research"

\* pollData.error?.message || `Research ${pollData.status}`
RemoteErrorMessage(data) ==
  IF "error" \in DOMAIN data /\ data.error.message # ""
    THEN data.error.message
    ELSE IF data.status = "failed" THEN "Research failed" ELSE "Research cancelled"

\* ---------------------------------------------------------------------------
\* Step 4: extraction of the text of a response
\* ---------------------------------------------------------------------------
IsTextPart(part) == part.type = "output_text" \/ part.type = "text"

\* the inner loop: text of the first part of type output_text or text
RECURSIVE FirstPartText(_, _)
FirstPartText(parts, j) ==
  IF j > Len(parts) THEN ""
  ELSE IF IsTextPart(parts[j]) THEN parts[j].text
  ELSE FirstPartText(parts, j + 1)

\* the outer loop: stops at the first item that left content truthy
RECURSIVE ScanOutput(_, _)
ScanOutput(output, i) ==
  IF i > Len(output) THEN ""
  ELSE LET item == output[i]
           found == IF item.type = "message" /\ "content" \in DOMAIN item
                      THEN FirstPartText(item.content, 1)
                      ELSE ""
       IN IF found # "" THEN found ELSE ScanOutput(output, i + 1)

ExtractContentOutputFirst(data) ==
  IF "output" \in DOMAIN data /\ ScanOutput(data.output, 1) # ""
    THEN ScanOutput(data.output, 1)
    ELSE IF "output_text" \in DOMAIN data THEN data.output_text ELSE ""

\* "" stands for a content that is undefined or empty (both falsy)
ExtractContent(data) ==
  IF "output_text" \in DOMAIN data /\ data.output_text # ""
    THEN data.output_text
    ELSE IF "output" \in DOMAIN data THEN ScanOutput(data.output, 1) ELSE ""

\* ---------------------------------------------------------------------------
\* executeDeepResearch
\* ---------------------------------------------------------------------------
\* Math.pow(2, attempt - 1) * 1000
BackoffMsDocumented(n) == (2 ^ n) * 1000

BackoffMsLinear(n) == n * 1000

BackoffMs(n) == (2 ^ (n - 1)) * 1000

\* the loop condition of the retry loop
MayAttempt(n) == n <= maxRetries

IsLastAttemptEarly(n) == n = maxRetries - 1

\* "Don't retry on the last attempt"
IsLastAttemptLate(n) == n = maxRetries + 1

IsLastAttempt(n) == n = maxRetries

TimedOutNever(elapsedMs) == FALSE

TimedOutLate(elapsedMs) == elapsedMs > MAX_POLL_TIME_MS + POLL_INTERVAL_MS

\* the timeout check of the poll loop
TimedOut(elapsedMs) == elapsedMs > MAX_POLL_TIME_MS

FailureCauseFirst(caught) ==
  IF caught[1].message # "" THEN caught[1].message
  ELSE "Unknown error occurred"

\* (error as Error).message || 'Unknown error occurred'
FailureCause(caught) ==
  IF caught[Len(caught)].message # "" THEN caught[Len(caught)].message
  ELSE "Unknown error occurred"

FailedResultPending(cause) ==
  [id |-> "failed", content |-> "", status |-> "in_progress", error |-> cause]

FailedResult(cause) ==
  [id |-> "failed", content |-> "", status |-> "failed", error |-> cause]

CompletedResult(id, content) ==
  [id |-> id, content |-> content, status |-> "completed"]

\* the results executeDeepResearch returns
JobResults ==
  { FailedResult(TimeoutMessage), FailedResult(NoContentMessage),
    CompletedResult(RespId(1), "a1") }

JobInit ==
  /\ pc = "loop"
  /\ attempt = 1
  /\ now = 0
  /\ pollStartTime = 0
  /\ pollData = NoData
  /\ responseId = ""
  /\ pollCount = 0
  /\ thrown = NoError
  /\ result = NoResult
  /\ submits = 0
  /\ okSubmits = 0
  /\ polls = 0
  /\ errors = << >>
  /\ waits = << >>
  /\ cancelled = FALSE

\* head of the retry loop: the backoff wait before every attempt but the
\* first, or the fall-through return when the loop condition fails
StartAttempt ==
  /\ pc = "loop"
  /\ IF MayAttempt(attempt)
       THEN /\ now' = now + (IF attempt > 1 THEN BackoffMs(attempt) ELSE 0)
            /\ waits' = Append(waits, IF attempt > 1 THEN BackoffMs(attempt) ELSE 0)
            /\ pc' = "submit"
            /\ result' = result
       ELSE /\ now' = now
            /\ waits' = waits
            /\ pc' = "done"
            /\ result' = FailedResult("All retry attempts failed")
  /\ UNCHANGED <<attempt, pollStartTime, pollData, responseId, pollCount, thrown,
                 submits, okSubmits, polls, errors>>
  /\ UNCHANGED <<cancelled, extractVars, runVars, eventVars, toolVars, logVars, isoVars, clientVars>>

\* Step 1, fetch rejects: the request was issued and no response arrived
SubmitTransportErrorIn(lats) ==
  /\ pc = "submit"
  /\ \E lat \in lats :
       /\ now' = now + lat
       /\ submits' = submits + 1
       /\ thrown' = [kind |-> "transport", message |-> "fetch failed"]
       /\ pc' = "catch"
  /\ UNCHANGED <<attempt, pollStartTime, pollData, responseId, pollCount, result,
                 okSubmits, polls, errors>>
  /\ UNCHANGED <<waits, cancelled, extractVars, runVars, eventVars, toolVars, logVars, isoVars, clientVars>>

SubmitTransportError == SubmitTransportErrorIn(Latencies)

\* Step 1, the response is not ok
SubmitHttpErrorIn(lats) ==
  /\ pc = "submit"
  /\ \E lat \in lats, code \in HttpErrorCodes :
       /\ now' = now + lat
       /\ submits' = submits + 1
       /\ thrown' = [kind |-> "transport", message |-> SubmitErrorMessage(code)]
       /\ pc' = "catch"
  /\ UNCHANGED <<attempt, pollStartTime, pollData, responseId, pollCount, result,
                 okSubmits, polls, errors>>
  /\ UNCHANGED <<waits, cancelled, extractVars, runVars, eventVars, toolVars, logVars, isoVars, clientVars>>

SubmitHttpError == SubmitHttpErrorIn(Latencies)

\* Step 1, the response is ok: the job has an external id and polling starts
SubmitOkIn(lats) ==
  /\ pc = "submit"
  /\ \E lat \in lats, data \in Responses :
       /\ now' = now + lat
       /\ pollStartTime' = now + lat
       /\ pollData' = data
  /\ submits' = submits + 1
  /\ okSubmits' = okSubmits + 1
  /\ responseId' = RespId(submits + 1)
  /\ pollCount' = 0
  /\ pc' = "check"
  /\ UNCHANGED <<attempt, thrown, result, polls, errors>>
  /\ UNCHANGED <<waits, cancelled, extractVars, runVars, eventVars, toolVars, logVars, isoVars, clientVars>>

SubmitOk == SubmitOkIn(Latencies)

\* Step 2, head of the poll loop: loop condition and timeout check
CheckTimeout ==
  /\ pc = "check"
  /\ IF InProgress(pollData)
       THEN IF TimedOut(now - pollStartTime)
              THEN /\ thrown' = [kind |-> "timeout", message |-> TimeoutMessage]
                   /\ pc' = "catch"
              ELSE /\ thrown' = thrown
                   /\ pc' = "wait"
       ELSE /\ thrown' = thrown
            /\ pc' = "handle"
  /\ UNCHANGED <<attempt, now, pollStartTime, pollData, responseId, pollCount,
                 result, submits, okSubmits, polls, errors>>
  /\ UNCHANGED <<waits, cancelled, extractVars, runVars, eventVars, toolVars, logVars, isoVars, clientVars>>

\* Step 2, the wait of the poll interval
WaitIntervalBackoff ==
  /\ pc = "wait"
  /\ now' = now + BackoffMs(attempt)
  /\ pollCount' = pollCount + 1
  /\ pc' = "poll"
  /\ UNCHANGED <<attempt, pollStartTime, pollData, responseId, thrown, result,
                 submits, okSubmits, polls, errors>>
  /\ UNCHANGED <<waits, cancelled, extractVars, runVars, eventVars, toolVars, logVars, isoVars, clientVars>>

WaitInterval ==
  /\ pc = "wait"
  /\ now' = now + POLL_INTERVAL_MS
  /\ pollCount' = pollCount + 1
  /\ pc' = "poll"
  /\ UNCHANGED <<attempt, pollStartTime, pollData, responseId, thrown, result,
                 submits, okSubmits, polls, errors>>
  /\ UNCHANGED <<waits, cancelled, extractVars, runVars, eventVars, toolVars, logVars, isoVars, clientVars>>

\* Step 2, the poll request fails: fetch rejects or the response is not ok
PollErrorIn(lats) ==
  /\ pc = "poll"
  /\ pollCount <= MaxPolls
  /\ \E lat \in lats, code \in HttpErrorCodes \cup {0} :
       /\ now' = now + lat
       /\ thrown' = [kind |-> "transport",
                     message |-> IF code = 0 THEN "fetch failed" ELSE PollErrorMessage(code)]
  /\ polls' = polls + 1
  /\ pc' = "catch"
  /\ UNCHANGED <<attempt, pollStartTime, pollData, responseId, pollCount, result,
                 submits, okSubmits, errors>>
  /\ UNCHANGED <<waits, cancelled, extractVars, runVars, eventVars, toolVars, logVars, isoVars, clientVars>>

PollError == PollErrorIn(Latencies)

\* Step 2, the poll request is answered.  The service reports a job still
\* running to fewer than MaxPolls polls of one attempt.
PollOkIn(lats) ==
  /\ pc = "poll"
  /\ pollCount <= MaxPolls
  /\ \E lat \in lats, data \in Responses :
       /\ InProgress(data) => pollCount < MaxPolls
       /\ now' = now + lat
       /\ pollData' = data
  /\ polls' = polls + 1
  /\ pc' = "check"
  /\ UNCHANGED <<attempt, pollStartTime, responseId, pollCount, thrown, result,
                 submits, okSubmits, errors>>
  /\ UNCHANGED <<waits, cancelled, extractVars, runVars, eventVars, toolVars, logVars, isoVars, clientVars>>

PollOk == PollOkIn(Latencies)

\* Step 2, the service goes on reporting the job as running past MaxPolls
\* polls, answering at once
PollStillRunning ==
  /\ pc = "poll"
  /\ pollCount >= MaxPolls
  /\ pollData' = [status |-> "in_progress"]
  /\ polls' = polls + 1
  /\ pc' = "check"
  /\ UNCHANGED <<attempt, now, pollStartTime, responseId, pollCount, thrown, result,
                 submits, okSubmits, errors>>
  /\ UNCHANGED <<waits, cancelled, extractVars, runVars, eventVars, toolVars, logVars, isoVars, clientVars>>

\* Steps 3 and 4: remote failure, extraction, return of the completed result
HandleCompletion ==
  /\ pc = "handle"
  /\ IF pollData.status = "failed" \/ pollData.status = "cancelled"
       THEN /\ thrown' = [kind |-> "remote", message |-> RemoteErrorMessage(pollData)]
            /\ pc' = "catch"
            /\ result' = result
       ELSE IF ExtractContent(pollData) = ""
         THEN /\ thrown' = [kind |-> "extraction", message |-> NoContentMessage]
              /\ pc' = "catch"
              /\ result' = result
         ELSE /\ thrown' = thrown
              /\ pc' = "done"
              /\ result' = CompletedResult(responseId, ExtractContent(pollData))
  /\ UNCHANGED <<attempt, now, pollStartTime, pollData, responseId, pollCount,
                 submits, okSubmits, polls, errors>>
  /\ UNCHANGED <<waits, cancelled, extractVars, runVars, eventVars, toolVars, logVars, isoVars, clientVars>>

\* the catch block: return on the last attempt, otherwise next iteration;
\* the variables declared inside the try block go out of scope
Catch ==
  /\ pc = "catch"
  /\ errors' = Append(errors, thrown)
  /\ thrown' = NoError
  /\ IF IsLastAttempt(attempt)
       THEN /\ result' = FailedResult(FailureCause(Append(errors, thrown)))
            /\ pc' = "done"
            /\ attempt' = attempt
       ELSE /\ result' = result
            /\ pc' = "loop"
            /\ attempt' = attempt + 1
  /\ pollStartTime' = 0
  /\ pollData' = NoData
  /\ responseId' = ""
  /\ pollCount' = 0
  /\ UNCHANGED <<now, submits, okSubmits, polls>>
  /\ UNCHANGED <<waits, cancelled, extractVars, runVars, eventVars, toolVars, logVars, isoVars, clientVars>>

\* the caller gives up the run (the chat request is aborted);
\* executeDeepResearch takes no cancellation signal
Cancel ==
  /\ ~cancelled
  /\ pc # "done"
  /\ cancelled' = TRUE
  /\ UNCHANGED <<pc, attempt, now, pollStartTime, pollData, responseId, pollCount,
                 thrown, result, submits, okSubmits, polls, errors, waits>>
  /\ UNCHANGED <<extractVars, runVars, eventVars, toolVars, logVars, isoVars, clientVars>>

\* ---------------------------------------------------------------------------
\* Extraction over all response bodies within the bounds
\* ---------------------------------------------------------------------------
\* the text of the part at position j of item i, when it is not empty
PartTexts == << <<"a1", "a2", "a3">>, <<"b1", "b2", "b3">>, <<"c1", "c2", "c3">> >>

PartText(i, j) ==
  IF i \in DOMAIN PartTexts /\ j \in DOMAIN PartTexts[i] THEN PartTexts[i][j] ELSE "zz"

\* a part of either text type with a text, a text part whose text is empty,
\* and a part of another type
PartShapes ==
  { [type |-> "output_text", empty |-> FALSE], [type |-> "text", empty |-> FALSE],
    [type |-> "text", empty |-> TRUE], [type |-> "refusal", empty |-> FALSE] }

\* items as they start: not a message, a message without content, a message
\* whose content has no part yet
NewItems ==
  { [type |-> "reasoning"], [type |-> "message"],
    [type |-> "message", content |-> << >>] }

ExtractIdle ==
  /\ exPc = "input"
  /\ exData = NoData
  /\ exContent = ""

\* the response body before its output array is filled
ExtractInit ==
  /\ exPc = "build"
  /\ exData \in
       { [status |-> "completed"], [status |-> "completed", output |-> << >>] }
         \cup { [status |-> "completed", output_text |-> t] : t \in {"", "T"} }
         \cup { [status |-> "completed", output_text |-> t, output |-> << >>] :
                  t \in {"", "T"} }
  /\ exContent = ""

\* the service appends an item to the output array of the body
AddItem ==
  /\ exPc = "build"
  /\ "output" \in DOMAIN exData
  /\ Len(exData.output) < MaxItems
  /\ \E item \in NewItems :
       exData' = [exData EXCEPT !.output = Append(@, item)]
  /\ UNCHANGED <<exPc, exContent, jobVars, runVars, eventVars, toolVars, logVars, isoVars, clientVars>>

\* the service appends a part to the content of the last item of the body
AddPart ==
  /\ exPc = "build"
  /\ "output" \in DOMAIN exData
  /\ Len(exData.output) > 0
  /\ LET i == Len(exData.output)
         item == exData.output[i]
     IN /\ "content" \in DOMAIN item
        /\ Len(item.content) < MaxParts
        /\ \E sh \in PartShapes :
             exData' = [exData EXCEPT !.output[i].content =
                          Append(@, [type |-> sh.type,
                                     text |-> IF sh.empty THEN ""
                                              ELSE PartText(i, Len(item.content) + 1)])]
  /\ UNCHANGED <<exPc, exContent, jobVars, runVars, eventVars, toolVars, logVars, isoVars, clientVars>>

\* Step 4 applied to exData: the content, or the 'no content' error
Extract ==
  /\ exPc = "build"
  /\ exContent' = ExtractContent(exData)
  /\ exPc' = IF ExtractContent(exData) = "" THEN "threw" ELSE "extracted"
  /\ UNCHANGED <<exData, jobVars, runVars, eventVars, toolVars, logVars, isoVars, clientVars>>

\* ---------------------------------------------------------------------------
\* One chat request: POST /api/chat, the deepResearch executions it starts
\* and the handlers of the chat page
\* ---------------------------------------------------------------------------
NoRun == [type |-> "none"]

NoKeys == [openai |-> "unread", tavily |-> "unread"]

NoResponse == [status |-> 0]

NoSections == [k \in {} |-> "none"]

SectionNumbers == 1..MaxSections

\* createRunStatus
CreateRunStatus(runId, phase, completedSections, totalSections) ==
  [type |-> "run-status", runId |-> runId, phase |-> phase,
   completedSections |-> completedSections, totalSections |-> totalSections]

\* `section-${args?.sectionNumber || sections.size + 1}`, as the number
SectionKey(sectionNumber, size) ==
  IF sectionNumber # 0 THEN sectionNumber ELSE size + 1

TerminalJobs == { s \in SectionNumbers : jobStatus[s] \in {"done", "error"} }

RunIdle ==
  /\ reqPc = "idle"
  /\ keys = NoKeys
  /\ response = NoResponse
  /\ phaseLog = << >>
  /\ outline = {}
  /\ called = {}
  /\ received = {}
  /\ jobStatus = [s \in SectionNumbers |-> "none"]
  /\ outlineEmitted = FALSE
  /\ srvRunStatus = {}
  /\ runStatus = NoRun
  /\ sections = NoSections

\* handleSubmit of the page; the agent will work from an outline of n
\* sections
HandleSubmit ==
  /\ reqPc = "idle"
  /\ \E n \in SectionNumbers : outline' = 1..n
  /\ runStatus' = CreateRunStatus("client-run", "planning", 0, 5)
  /\ sections' = NoSections
  /\ outlineEmitted' = FALSE
  /\ reqPc' = "submitted"
  /\ UNCHANGED <<called, received, jobStatus, srvRunStatus, jobVars, extractVars,
                 eventVars, toolVars, logVars, isoVars, clientVars>>
  /\ UNCHANGED <<keys, response, phaseLog>>

\* !openaiKey || !tavilyKey
KeysMissingOpenAIOnly(openaiKey, tavilyKey) == openaiKey = ""

KeysMissing(openaiKey, tavilyKey) == openaiKey = "" \/ tavilyKey = ""

\* errorDetails
ErrorDetails(openaiKey, tavilyKey) ==
  [openai |-> IF openaiKey = "" THEN "OPENAI_API_KEY not configured" ELSE "configured",
   tavily |-> IF tavilyKey = "" THEN "TAVILY_API_KEY not configured" ELSE "configured"]

\* POST up to the start of the stream: the keys are handed to the tools,
\* and the request is answered 500 when one of them is not configured
Post ==
  /\ reqPc = "submitted"
  /\ \E openaiKey \in {"", "sk-key"}, tavilyKey \in {"", "tvly-key"} :
       /\ keys' = [openai |-> openaiKey, tavily |-> tavilyKey]
       /\ openaiApiKey' = IF openaiKey # "" THEN openaiKey ELSE openaiApiKey
       /\ IF KeysMissing(openaiKey, tavilyKey)
            THEN /\ response' = [status |-> 500, error |-> "Missing API keys",
                                 details |-> ErrorDetails(openaiKey, tavilyKey)]
                 /\ phaseLog' = phaseLog
                 /\ reqPc' = "rejected"
            ELSE /\ response' = [status |-> 200]
                 /\ phaseLog' = Append(phaseLog, "planning")
                 /\ reqPc' = "streaming"
  /\ UNCHANGED <<outline, called, received, jobStatus, outlineEmitted, srvRunStatus,
                 runStatus, sections, jobVars, extractVars, eventVars, logVars, isoVars, clientVars>>
  /\ UNCHANGED <<toolPc, toolArgs, toolResult, emitted, toolLog, saved, toolReturn,
                 returnedJobs, apiCalls, invocations>>

\* a request of any client reaches POST
RequestArrives ==
  /\ reqPc = "idle"
  /\ reqPc' = "submitted"
  /\ UNCHANGED <<keys, response, phaseLog, outline, called, received, jobStatus,
                 outlineEmitted, srvRunStatus, runStatus, sections>>
  /\ UNCHANGED <<jobVars, extractVars, eventVars, toolVars, logVars, isoVars, clientVars>>

\* the request is over: the 500 was returned or the stream has ended; the
\* module variable _openaiApiKey outlives the request
RequestOver ==
  /\ reqPc \in {"rejected", "streaming"}
  /\ reqPc' = "idle"
  /\ keys' = NoKeys
  /\ response' = NoResponse
  /\ phaseLog' = << >>
  /\ UNCHANGED <<outline, called, received, jobStatus, outlineEmitted,
                 srvRunStatus, runStatus, sections>>
  /\ UNCHANGED <<jobVars, extractVars, eventVars, toolVars, logVars, isoVars, clientVars>>

\* onChunk of POST for a tool-call chunk of deepResearch
OnChunkToolCall ==
  /\ reqPc = "streaming"
  /\ \E s \in outline \ called : called' = called \cup {s}
  /\ srvRunStatus' =
       IF ~outlineEmitted
         THEN srvRunStatus \cup {CreateRunStatus("server-run", "dispatching", 0, 5)}
         ELSE srvRunStatus
  /\ phaseLog' = IF ~outlineEmitted THEN Append(phaseLog, "dispatching") ELSE phaseLog
  /\ UNCHANGED <<reqPc, outline, received, jobStatus, outlineEmitted, runStatus,
                 sections, jobVars, extractVars,
                 eventVars, toolVars, logVars, isoVars, clientVars>>
  /\ UNCHANGED <<keys, response>>

\* deepResearchTool.execute up to the 'running' SectionStatus
ExecuteStart ==
  /\ reqPc = "streaming"
  /\ \E s \in called :
       /\ jobStatus[s] = "none"
       /\ jobStatus' = [jobStatus EXCEPT ![s] = "running"]
  /\ UNCHANGED <<reqPc, outline, called, received, outlineEmitted, srvRunStatus,
                 runStatus, sections, jobVars, extractVars,
                 eventVars, toolVars, logVars, isoVars, clientVars>>
  /\ UNCHANGED <<keys, response, phaseLog>>

\* the SectionStatus of section s after its job returned res; the jobs of
\* the other sections are other invocations of execute
SettleFailFast(status, s, res) ==
  [t \in DOMAIN status |->
     IF res.status = "failed"
       THEN IF t = s \/ status[t] = "running" THEN "error" ELSE status[t]
       ELSE IF t = s THEN "done" ELSE status[t]]

Settle(status, s, res) ==
  [status EXCEPT ![s] = IF res.status = "failed" THEN "error" ELSE "done"]

\* deepResearchTool.execute from the result of executeDeepResearch on:
\* the 'error' SectionStatus of a failed job, the 'done' one of a completed job
ExecuteEnd ==
  /\ reqPc = "streaming"
  /\ \E s \in called, res \in JobResults :
       /\ jobStatus[s] = "running"
       /\ jobStatus' = Settle(jobStatus, s, res)
  /\ UNCHANGED <<reqPc, outline, called, received, outlineEmitted, srvRunStatus,
                 runStatus, sections, jobVars, extractVars,
                 eventVars, toolVars, logVars, isoVars, clientVars>>
  /\ UNCHANGED <<keys, response, phaseLog>>

\* the phase update of onToolCall of the page
ResearchingRunStatus(rs) ==
  IF rs # NoRun /\ rs.phase # "researching"
    THEN [rs EXCEPT !.phase = "researching"]
    ELSE rs

\* onToolCall of the page; the page may consume the stream behind the server
OnToolCall ==
  /\ reqPc \in {"streaming", "served"}
  /\ \E s \in called \ received :
       /\ received' = received \cup {s}
       /\ runStatus' = ResearchingRunStatus(runStatus)
       /\ LET key == SectionKey(s, Cardinality(DOMAIN sections))
          IN sections' = [k \in DOMAIN sections \cup {key} |->
                            IF k = key THEN "running" ELSE sections[k]]
  /\ UNCHANGED <<reqPc, outline, called, jobStatus, outlineEmitted, srvRunStatus,
                 jobVars, extractVars,
                 eventVars, toolVars, logVars, isoVars, clientVars>>
  /\ UNCHANGED <<keys, response, phaseLog>>

\* onFinish of POST: the stream ends when every tool execution has returned
ServerOnFinish ==
  /\ reqPc = "streaming"
  /\ \A s \in called : jobStatus[s] \in {"done", "error"}
  /\ srvRunStatus' = srvRunStatus \cup {CreateRunStatus("server-run", "complete", 5, 5)}
  /\ phaseLog' = Append(phaseLog, "complete")
  /\ reqPc' = "served"
  /\ UNCHANGED <<outline, called, received, jobStatus, outlineEmitted, runStatus,
                 sections, jobVars, extractVars,
                 eventVars, toolVars, logVars, isoVars, clientVars>>
  /\ UNCHANGED <<keys, response>>

\* the assignment of onFinish of the page
FinishedRunStatusKeepCount(rs) ==
  IF rs # NoRun THEN [rs EXCEPT !.phase = "complete"] ELSE rs

FinishedRunStatusPlanning(rs) ==
  IF rs # NoRun
    THEN [rs EXCEPT !.phase = "planning", !.completedSections = rs.totalSections]
    ELSE rs

FinishedRunStatus(rs) ==
  IF rs # NoRun
    THEN [rs EXCEPT !.phase = "complete", !.completedSections = rs.totalSections]
    ELSE rs

\* onFinish of the page, after the whole stream was consumed
ClientOnFinish ==
  /\ reqPc = "served"
  /\ received = called
  /\ runStatus' = FinishedRunStatus(runStatus)
  /\ reqPc' = "finished"
  /\ UNCHANGED <<outline, called, received, jobStatus, outlineEmitted, srvRunStatus,
                 sections, jobVars, extractVars,
                 eventVars, toolVars, logVars, isoVars, clientVars>>
  /\ UNCHANGED <<keys, response, phaseLog>>

\* ---------------------------------------------------------------------------
\* The streaming helpers.  A string that is part of a key is the sequence of
\* its characters, so that a template literal is a concatenation.
\* ---------------------------------------------------------------------------
Chars == {"a", ":"}

SeqsOfLen(S, lo, hi) == UNION { [1..k -> S] : k \in lo..hi }

\* the runId and sectionId strings: not empty, at most MaxIdLen characters
Ids == SeqsOfLen(Chars, 1, MaxIdLen)

\* the entries of the sections array of an outline
OutlineSections == { [id |-> <<c>>] : c \in Chars }

SectionLists == SeqsOfLen(OutlineSections, 0, MaxOutlineLen)

NoEvent == [type |-> "none"]

\* createOutline
CreateOutline(runId, sectionList) ==
  [type |-> "outline", runId |-> runId, sections |-> sectionList]

\* createSectionStatus; "" is an error that is undefined
CreateSectionStatus(runId, sectionId, status, progress, error) ==
  [type |-> "section-status", runId |-> runId, sectionId |-> sectionId,
   status |-> status, progress |-> progress, error |-> error]

\* createHeartbeat
CreateHeartbeat(runId, secondsSinceLastUpdate) ==
  [type |-> "heartbeat", runId |-> runId,
   secondsSinceLastUpdate |-> secondsSinceLastUpdate]

\* createPartId
CreatePartId(event) ==
  CASE event.type = "run-status" -> <<"r", "u", "n", ":">> \o event.runId
    [] event.type = "outline" ->
         <<"o", "u", "t", "l", "i", "n", "e", ":">> \o event.runId
    [] event.type = "section-status" ->
         <<"s", "e", "c", "t", "i", "o", "n", ":">> \o event.runId \o <<":">>
           \o event.sectionId
    [] event.type = "heartbeat" ->
         <<"h", "e", "a", "r", "t", "b", "e", "a", "t", ":">> \o event.runId

\* formatAsDataPart
FormatAsDataPart(event) ==
  [type |-> "data", id |-> CreatePartId(event), data |-> event]

NoProgress == [preview |-> ""]

EventIdle ==
  /\ evPc = "first"
  /\ evA = NoEvent
  /\ evB = NoEvent

\* the part becomes the first or the second one of the pair
Formatted(part) ==
  /\ evPc \in {"first", "second"}
  /\ IF evPc = "first"
       THEN evA' = part /\ evB' = evB /\ evPc' = "second"
       ELSE evA' = evA /\ evB' = part /\ evPc' = "both"
  /\ UNCHANGED <<jobVars, extractVars, runVars, toolVars, logVars, isoVars, clientVars>>

RunStatusPart ==
  \E runId \in Ids, phase \in {"planning", "complete"} :
    Formatted(FormatAsDataPart(
      CreateRunStatus(runId, phase, IF phase = "complete" THEN 5 ELSE 0, 5)))

OutlinePart ==
  \E runId \in Ids, sectionList \in SectionLists :
    Formatted(FormatAsDataPart(CreateOutline(runId, sectionList)))

SectionStatusPart ==
  \E runId \in Ids, sectionId \in Ids, status \in {"running", "error"} :
    Formatted(FormatAsDataPart(
      CreateSectionStatus(runId, sectionId, status, NoProgress,
                          IF status = "error" THEN TimeoutMessage ELSE "")))

HeartbeatPart ==
  \E runId \in Ids :
    Formatted(FormatAsDataPart(CreateHeartbeat(runId, 30)))

\* ---------------------------------------------------------------------------
\* deepResearchTool.execute, invoked several times in one process; the
\* result of executeDeepResearch is any result it can return
\* ---------------------------------------------------------------------------
ToolSectionNumbers == {1, 2}

\* `section-${sectionNumber}`
DefaultSectionId(sectionNumber) ==
  IF sectionNumber = 1 THEN "section-1" ELSE "section-2"

\* the optional parameters sectionId and runId; "" when left out
ToolSectionIds == {"", "section-2"}

ToolRunIds == {"", "run-1"}

ToolArgs ==
  [sectionNumber : ToolSectionNumbers, sectionId : ToolSectionIds,
   runId : ToolRunIds, generatePDF : BOOLEAN]

NoArgs == [sectionNumber |-> 0]

\* sectionId || `section-${sectionNumber}`
EffectiveSectionId(args) ==
  IF args.sectionId # "" THEN args.sectionId ELSE DefaultSectionId(args.sectionNumber)

\* runId || 'unknown'
EffectiveRunId(args) ==
  IF args.runId # "" THEN args.runId ELSE "unknown"

\* the fields of its argument that logToolExecution copies into the event
LoggedFields ==
  {"toolName", "phase", "parameters", "result", "error", "durationMs",
   "attempt", "maxAttempts"}

LoggedData(data) == [f \in DOMAIN data \cap LoggedFields |-> data[f]]

\* categoryMap[data.phase]; "" when the phase is not a key of the map
Category(phase) ==
  CASE phase = "start" -> "tool.start"
    [] phase = "progress" -> "tool.progress"
    [] phase = "success" -> "tool.success"
    [] phase = "error" -> "tool.error"
    [] OTHER -> ""

\* logToolExecution: the event it hands to logEvent
LogToolExecution(data) ==
  [source |-> "tool:deep-research",
   level |-> IF data.phase = "error" THEN "error" ELSE "info",
   category |-> Category(data.phase),
   data |-> LoggedData(data)]

\* result.content.substring(0, 200) + '...'
Preview(content) == <<content, "...">>

NoReturn == [kind |-> "none"]

KeyMissingMessage == "OPENAI_API_KEY is not set. Call setOpenAIApiKey first."

ToolIdle ==
  /\ toolPc = "idle"
  /\ openaiApiKey = ""
  /\ toolArgs = NoArgs
  /\ toolResult = NoResult
  /\ emitted = << >>
  /\ toolLog = << >>
  /\ saved = << >>
  /\ toolReturn = NoReturn
  /\ returnedJobs = << >>
  /\ apiCalls = << >>
  /\ invocations = 0

\* setOpenAIApiKey, called by POST /api/chat with the configured key
SetOpenAIApiKey ==
  /\ openaiApiKey = ""
  /\ openaiApiKey' = "sk-key"
  /\ UNCHANGED <<toolPc, toolArgs, toolResult, emitted, toolLog, saved, toolReturn,
                 returnedJobs, apiCalls, invocations>>
  /\ UNCHANGED <<jobVars, extractVars, runVars, eventVars, logVars, isoVars, clientVars>>

\* execute, up to the 'running' SectionStatus
ToolStart ==
  /\ toolPc = "idle"
  /\ invocations < MaxInvocations
  /\ \E args \in ToolArgs :
       /\ toolArgs' = args
       /\ LET runningStatus ==
                CreateSectionStatus(EffectiveRunId(args), EffectiveSectionId(args),
                                    "running", NoProgress, "")
          IN /\ emitted' = Append(emitted, runningStatus)
             /\ toolLog' = toolLog \o
                  << LogToolExecution(
                       [toolName |-> "deepResearch", phase |-> "start",
                        parameters |->
                          [sectionNumber |-> args.sectionNumber,
                           sectionId |-> EffectiveSectionId(args),
                           runId |-> EffectiveRunId(args),
                           generatePDF |-> args.generatePDF]]),
                     LogToolExecution(
                       [toolName |-> "deepResearch", phase |-> "section-status",
                        sectionStatus |-> runningStatus]) >>
  /\ invocations' = invocations + 1
  /\ toolResult' = NoResult
  /\ toolReturn' = NoReturn
  /\ toolPc' = "keycheck"
  /\ UNCHANGED <<openaiApiKey, saved, returnedJobs, apiCalls>>
  /\ UNCHANGED <<jobVars, extractVars, runVars, eventVars, logVars, isoVars, clientVars>>

\* the check of _openaiApiKey
ToolKeyCheckSkipped ==
  /\ toolPc = "keycheck"
  /\ toolPc' = "job"
  /\ UNCHANGED <<openaiApiKey, toolArgs, toolResult, emitted, toolLog, saved,
                 toolReturn, returnedJobs, apiCalls, invocations>>
  /\ UNCHANGED <<jobVars, extractVars, runVars, eventVars, logVars, isoVars, clientVars>>

ToolKeyCheck ==
  /\ toolPc = "keycheck"
  /\ IF openaiApiKey = ""
       THEN /\ toolLog' = Append(toolLog,
                 LogToolExecution(
                   [toolName |-> "deepResearch", phase |-> "error",
                    error |-> [name |-> "Error", message |-> KeyMissingMessage]]))
            /\ toolReturn' = [kind |-> "threw", message |-> KeyMissingMessage]
            /\ toolPc' = "idle"
       ELSE /\ toolLog' = toolLog
            /\ toolReturn' = toolReturn
            /\ toolPc' = "job"
  /\ UNCHANGED <<openaiApiKey, toolArgs, toolResult, emitted, saved, returnedJobs,
                 apiCalls, invocations>>
  /\ UNCHANGED <<jobVars, extractVars, runVars, eventVars, logVars, isoVars, clientVars>>

\* the requests executeDeepResearch sends, each with the header
\* Authorization: Bearer ${_openaiApiKey}
JobRequests(key) ==
  << [request |-> "submit", authorization |-> key],
     [request |-> "poll", authorization |-> key] >>

\* result.status === 'failed'
JobFailedNever(res) == FALSE

JobFailed(res) == res.status = "failed"

\* executeDeepResearch returns; the branch of a failed result
ToolJobReturns ==
  /\ toolPc = "job"
  /\ \E res \in JobResults :
       /\ toolResult' = res
       /\ returnedJobs' = Append(returnedJobs, res)
       /\ apiCalls' = apiCalls \o JobRequests(openaiApiKey)
       /\ IF JobFailed(res)
            THEN LET errorStatus ==
                       CreateSectionStatus(EffectiveRunId(toolArgs),
                                           EffectiveSectionId(toolArgs),
                                           "error", NoProgress, res.error)
                 IN /\ emitted' = Append(emitted, errorStatus)
                    /\ toolLog' = toolLog \o
                         << LogToolExecution(
                              [toolName |-> "deepResearch", phase |-> "section-status",
                               sectionStatus |-> errorStatus]),
                            LogToolExecution(
                              [toolName |-> "deepResearch", phase |-> "error",
                               error |-> [name |-> "DeepResearchError",
                                          message |-> IF res.error # "" THEN res.error
                                                      ELSE "Unknown error"]]) >>
                    /\ toolReturn' = [kind |-> "returned", success |-> FALSE,
                                      error |-> res.error]
                    /\ toolPc' = "idle"
            ELSE /\ emitted' = emitted
                 /\ toolLog' = toolLog
                 /\ toolReturn' = toolReturn
                 /\ toolPc' = "save"
  /\ UNCHANGED <<openaiApiKey, toolArgs, saved, invocations>>
  /\ UNCHANGED <<jobVars, extractVars, runVars, eventVars, logVars, isoVars, clientVars>>

\* saveMarkdownReport rejects: execute throws
ToolSaveFails ==
  /\ toolPc = "save"
  /\ saved' = Append(saved, [sectionNumber |-> toolArgs.sectionNumber,
                             content |-> toolResult.content, written |-> FALSE])
  /\ toolReturn' = [kind |-> "threw", message |-> "write failed"]
  /\ toolPc' = "idle"
  /\ UNCHANGED <<openaiApiKey, toolArgs, toolResult, emitted, toolLog, returnedJobs,
                 apiCalls, invocations>>
  /\ UNCHANGED <<jobVars, extractVars, runVars, eventVars, logVars, isoVars, clientVars>>

\* what execute returns once the report is saved: the failure of
\* generatePDF is caught and leaves pdfPath undefined
FinishReturnStrict(args, pdfGenerated) ==
  IF args.generatePDF /\ ~pdfGenerated
    THEN [kind |-> "threw", message |-> "PDF generation failed"]
    ELSE [kind |-> "returned", success |-> TRUE, pdf |-> pdfGenerated]

FinishReturn(args, pdfGenerated) ==
  [kind |-> "returned", success |-> TRUE, pdf |-> pdfGenerated]

\* the report is saved; the PDF, when asked for, is generated or not; the
\* 'done' SectionStatus; the return of the success
ToolFinish ==
  /\ toolPc = "save"
  /\ saved' = Append(saved, [sectionNumber |-> toolArgs.sectionNumber,
                             content |-> toolResult.content, written |-> TRUE])
  /\ \E pdfGenerated \in (IF toolArgs.generatePDF THEN BOOLEAN ELSE {FALSE}) :
       LET doneStatus ==
             CreateSectionStatus(EffectiveRunId(toolArgs), EffectiveSectionId(toolArgs),
                                 "done", [preview |-> Preview(toolResult.content)], "")
       IN /\ emitted' = Append(emitted, doneStatus)
          /\ toolLog' = toolLog \o
               << LogToolExecution(
                    [toolName |-> "deepResearch", phase |-> "section-status",
                     sectionStatus |-> doneStatus]),
                  LogToolExecution(
                    [toolName |-> "deepResearch", phase |-> "success",
                     result |-> [pdf |-> pdfGenerated,
                                 contentPreview |-> Preview(toolResult.content)]]) >>
          /\ toolReturn' = FinishReturn(toolArgs, pdfGenerated)
  /\ toolPc' = "idle"
  /\ UNCHANGED <<openaiApiKey, toolArgs, toolResult, returnedJobs, apiCalls, invocations>>
  /\ UNCHANGED <<jobVars, extractVars, runVars, eventVars, logVars, isoVars, clientVars>>

\* ---------------------------------------------------------------------------
\* logEvent of the server logger, called from executeDeepResearch
\* ---------------------------------------------------------------------------

\* process.env.ENABLE_DEV_LOGGING and process.env.DEV_LOG_ECHO
LoggingFlags == {"undefined", "true", "false"}

EchoFlags == {"undefined", "true"}

\* isLoggingEnabled
IsLoggingEnabled(envFlag) ==
  IF envFlag # "undefined" THEN envFlag = "true" \/ envFlag = "1" ELSE TRUE

\* isConsoleEchoEnabled
IsConsoleEchoEnabled(envFlag) == envFlag = "true" \/ envFlag = "1"

\* the keys SECRET_KEY_PATTERN matches, among those of the payloads below
SecretKeys == {"apiKey"}

\* redactSecrets, on a payload of strings
RedactSecrets(data) ==
  [k \in DOMAIN data |-> IF k \in SecretKeys THEN "[REDACTED]" ELSE data[k]]

\* the events handed to logEvent; the data payload is optional
LogEvents ==
  { [level |-> l] : l \in {"info", "error"} }
    \cup { [level |-> l, data |-> [apiKey |-> "sk-key", note |-> "n"]] :
             l \in {"info", "error"} }

\* where executeDeepResearch awaits the call: at the head of the retry loop,
\* inside the try block, inside the catch block
LogCallers == {"loop", "try", "catch"}

\* the line appended for an event
LogLine(event) ==
  IF "data" \in DOMAIN event
    THEN [event EXCEPT !.data = RedactSecrets(event.data)]
    ELSE event

NoLogArg == [caller |-> "none"]

NoLogEnv == [logging |-> "undefined", echo |-> "undefined"]

LogIdle ==
  /\ logPc = "idle"
  /\ logEnv = NoLogEnv
  /\ logArg = NoLogArg
  /\ logFile = << >>
  /\ logConsole = << >>
  /\ logResult = "none"
  /\ logCalls = 0

\* a call of logEvent
LogEventCall ==
  /\ logPc = "idle"
  /\ logCalls < MaxLogCalls
  /\ \E event \in LogEvents, caller \in LogCallers,
        logging \in LoggingFlags, echo \in EchoFlags :
       /\ logArg' = [caller |-> caller, event |-> event]
       /\ logEnv' = [logging |-> logging, echo |-> echo]
  /\ logCalls' = logCalls + 1
  /\ logResult' = "pending"
  /\ logPc' = "check"
  /\ UNCHANGED <<logFile, logConsole>>
  /\ UNCHANGED <<jobVars, extractVars, runVars, eventVars, toolVars, isoVars, clientVars>>

\* if (!isLoggingEnabled()) return
LogCheckEnabled ==
  /\ logPc = "check"
  /\ IF IsLoggingEnabled(logEnv.logging)
       THEN logPc' = "mkdir" /\ logResult' = logResult
       ELSE logPc' = "idle" /\ logResult' = "resolved"
  /\ UNCHANGED <<logEnv, logArg, logFile, logConsole, logCalls>>
  /\ UNCHANGED <<jobVars, extractVars, runVars, eventVars, toolVars, isoVars, clientVars>>

\* ensureLogsDir: the directory is there or is made, or fs.mkdir rejects
LogMkdir ==
  /\ logPc = "mkdir"
  /\ \E made \in BOOLEAN : logPc' = IF made THEN "append" ELSE "caught"
  /\ UNCHANGED <<logEnv, logArg, logFile, logConsole, logResult, logCalls>>
  /\ UNCHANGED <<jobVars, extractVars, runVars, eventVars, toolVars, isoVars, clientVars>>

\* redactSecrets, JSON.stringify and fs.appendFile: the line is appended, or
\* one of them throws
LogAppend ==
  /\ logPc = "append"
  /\ \E appended \in BOOLEAN :
       IF appended
         THEN /\ logFile' = Append(logFile, LogLine(logArg.event))
              /\ logPc' = "echo"
         ELSE /\ logFile' = logFile
              /\ logPc' = "caught"
  /\ UNCHANGED <<logEnv, logArg, logConsole, logResult, logCalls>>
  /\ UNCHANGED <<jobVars, extractVars, runVars, eventVars, toolVars, isoVars, clientVars>>

\* the optional console echo, and the normal return
LogEcho ==
  /\ logPc = "echo"
  /\ logConsole' = IF IsConsoleEchoEnabled(logEnv.echo)
                     THEN Append(logConsole, "log") ELSE logConsole
  /\ logResult' = "resolved"
  /\ logPc' = "idle"
  /\ UNCHANGED <<logEnv, logArg, logFile, logCalls>>
  /\ UNCHANGED <<jobVars, extractVars, runVars, eventVars, toolVars, isoVars, clientVars>>

\* the catch block of logEvent
LogCaughtRethrow ==
  /\ logPc = "caught"
  /\ logConsole' = Append(logConsole, "error")
  /\ logResult' = "rejected"
  /\ logPc' = "idle"
  /\ UNCHANGED <<logEnv, logArg, logFile, logCalls>>
  /\ UNCHANGED <<jobVars, extractVars, runVars, eventVars, toolVars, isoVars, clientVars>>

LogCaught ==
  /\ logPc = "caught"
  /\ logConsole' = Append(logConsole, "error")
  /\ logResult' = "resolved"
  /\ logPc' = "idle"
  /\ UNCHANGED <<logEnv, logArg, logFile, logCalls>>
  /\ UNCHANGED <<jobVars, extractVars, runVars, eventVars, toolVars, isoVars, clientVars>>

\* ---------------------------------------------------------------------------
\* Two runs invoking deepResearchTool.execute
\* ---------------------------------------------------------------------------
Runs == {1, 2}

\* the runId a run passes when it passes one
RunNames == <<"run-1", "run-2">>

\* the parameters run r may pass; "" for a parameter left out
RunArgs(r) ==
  [sectionNumber : ToolSectionNumbers, sectionId : ToolSectionIds,
   runId : {"", RunNames[r]}, generatePDF : BOOLEAN]

\* the characters of the strings that become parts of a key
CharsOf(str) ==
  CASE str = "unknown" -> <<"u", "n", "k", "n", "o", "w", "n">>
    [] str = "run-1" -> <<"r", "u", "n", "-", "1">>
    [] str = "run-2" -> <<"r", "u", "n", "-", "2">>
    [] str = "section-1" -> <<"s", "e", "c", "t", "i", "o", "n", "-", "1">>
    [] str = "section-2" -> <<"s", "e", "c", "t", "i", "o", "n", "-", "2">>

IsoIdle ==
  /\ isoArgs = [r \in Runs |-> NoArgs]
  /\ isoParts = [r \in Runs |-> NoEvent]

\* execute of a run, up to the 'running' SectionStatus, and the data part
\* that carries it
RunInvokesTool ==
  \E r \in Runs :
    /\ isoArgs[r] = NoArgs
    /\ \E args \in RunArgs(r) :
         /\ isoArgs' = [isoArgs EXCEPT ![r] = args]
         /\ isoParts' = [isoParts EXCEPT ![r] =
              FormatAsDataPart(
                CreateSectionStatus(CharsOf(EffectiveRunId(args)),
                                    CharsOf(EffectiveSectionId(args)),
                                    "running", NoProgress, ""))]
    /\ UNCHANGED <<jobVars, extractVars, runVars, eventVars, toolVars, logVars, clientVars>>

\* ---------------------------------------------------------------------------
\* The request loggers of the page (createRequestLogger)
\* ---------------------------------------------------------------------------
\* the loggers alive at the same time
ClientLoggers == {1, 2}

\* the console methods the page calls
CalledMethods == {"log", "error"}

Null == [installed |-> FALSE]

\* the native console methods: no interceptor wraps them
Native == << >>

\* levelMap of createConsoleInterceptor
LevelMap(method) ==
  CASE method = "log" -> "info"
    [] method = "info" -> "info"
    [] method = "warn" -> "warn"
    [] method = "error" -> "error"
    [] method = "debug" -> "debug"

\* createConsoleInterceptor: the interceptor of logger l around original
CreateConsoleInterceptor(l, original) == Append(original, l)

\* how often the interceptor of logger l runs in one call of the console
InterceptorRuns(chain, l) == Cardinality({ i \in DOMAIN chain : chain[i] = l })

\* n copies of an event
RECURSIVE Copies(_, _)
Copies(e, n) == IF n = 0 THEN << >> ELSE <<e>> \o Copies(e, n - 1)

ClientIdle ==
  /\ console = Native
  /\ originalConsole = [l \in ClientLoggers |-> Null]
  /\ events = [l \in ClientLoggers |-> << >>]
  /\ consoleCounts = [l \in ClientLoggers |-> [m \in CalledMethods |-> 0]]
  /\ delivered = << >>
  /\ flushes = [l \in ClientLoggers |-> 0]
  /\ clientCalls = 0

\* installConsoleInterceptors
InstallConsoleInterceptors ==
  /\ clientCalls < MaxClientCalls
  /\ \E l \in ClientLoggers :
       IF originalConsole[l] # Null
         THEN UNCHANGED <<console, originalConsole>>
         ELSE /\ originalConsole' =
                   [originalConsole EXCEPT ![l] = [installed |-> TRUE, methods |-> console]]
              /\ console' = CreateConsoleInterceptor(l, console)
  /\ clientCalls' = clientCalls + 1
  /\ UNCHANGED <<events, consoleCounts, delivered, flushes>>
  /\ UNCHANGED <<jobVars, extractVars, runVars, eventVars, toolVars, logVars, isoVars>>

\* restoreConsole
RestoreConsole ==
  /\ clientCalls < MaxClientCalls
  /\ \E l \in ClientLoggers :
       IF originalConsole[l] = Null
         THEN UNCHANGED <<console, originalConsole>>
         ELSE /\ console' = originalConsole[l].methods
              /\ originalConsole' = [originalConsole EXCEPT ![l] = Null]
  /\ clientCalls' = clientCalls + 1
  /\ UNCHANGED <<events, consoleCounts, delivered, flushes>>
  /\ UNCHANGED <<jobVars, extractVars, runVars, eventVars, toolVars, logVars, isoVars>>

\* the page calls a console method: every interceptor that wraps it calls
\* its original, counts the call and queues an event
ConsoleCall ==
  /\ clientCalls < MaxClientCalls
  /\ \E method \in CalledMethods :
       /\ consoleCounts' =
            [l \in ClientLoggers |->
               [consoleCounts[l] EXCEPT ![method] = @ + InterceptorRuns(console, l)]]
       /\ events' =
            [l \in ClientLoggers |->
               events[l] \o Copies([level |-> LevelMap(method), category |-> "console"],
                                   InterceptorRuns(console, l))]
  /\ clientCalls' = clientCalls + 1
  /\ UNCHANGED <<console, originalConsole, delivered, flushes>>
  /\ UNCHANGED <<jobVars, extractVars, runVars, eventVars, toolVars, logVars, isoVars>>

\* logger.info and logger.error: addEvent
ClientLog ==
  /\ clientCalls < MaxClientCalls
  /\ \E l \in ClientLoggers, level \in {"info", "error"} :
       events' = [events EXCEPT ![l] = Append(@, [level |-> level, category |-> "chat"])]
  /\ clientCalls' = clientCalls + 1
  /\ UNCHANGED <<console, originalConsole, consoleCounts, delivered, flushes>>
  /\ UNCHANGED <<jobVars, extractVars, runVars, eventVars, toolVars, logVars, isoVars>>

\* flush: the summary event is queued, then the queue is sent; sendBeacon
\* or fetch takes the payload or fails, and a failure is ignored
Flush ==
  /\ clientCalls < MaxClientCalls
  /\ \E l \in ClientLoggers, success \in BOOLEAN, sent \in BOOLEAN :
       LET summary == [level |-> IF success THEN "info" ELSE "error",
                       category |-> "client.summary",
                       consoleCounts |-> consoleCounts[l]]
           queue == Append(events[l], summary)
       IN /\ events' = [events EXCEPT ![l] = queue]
          /\ delivered' = IF sent /\ Len(queue) # 0
                            THEN Append(delivered, [id |-> l, events |-> queue])
                            ELSE delivered
          /\ flushes' = [flushes EXCEPT ![l] = @ + 1]
  /\ clientCalls' = clientCalls + 1
  /\ UNCHANGED <<console, originalConsole, consoleCounts>>
  /\ UNCHANGED <<jobVars, extractVars, runVars, eventVars, toolVars, logVars, isoVars>>

InitRun == JobInit /\ ExtractIdle /\ RunIdle /\ EventIdle /\ ToolIdle /\ LogIdle /\ IsoIdle
  /\ ClientIdle

NextRun ==
  \/ HandleSubmit
  \/ Post
  \/ OnChunkToolCall
  \/ ExecuteStart
  \/ ExecuteEnd
  \/ OnToolCall
  \/ ServerOnFinish
  \/ ClientOnFinish

SpecRun == InitRun /\ [][NextRun]_vars

Init == JobInit /\ ExtractIdle /\ RunIdle /\ EventIdle /\ ToolIdle /\ LogIdle /\ IsoIdle
  /\ ClientIdle

Next ==
  \/ StartAttempt
  \/ SubmitTransportError
  \/ SubmitHttpError
  \/ SubmitOk
  \/ CheckTimeout
  \/ WaitInterval
  \/ PollError
  \/ PollOk
  \/ HandleCompletion
  \/ Catch

Spec == Init /\ [][Next]_vars

NextCancel == Next \/ Cancel

\* latencies of the calls in the specification with fairness
LiveLatencies == {0, SlowLatency}

\* the job with a service that may report a running job without end; every
\* call returns or fails and every timer fires, so a step that can be taken
\* is taken
NextLive ==
  \/ StartAttempt
  \/ SubmitTransportErrorIn(LiveLatencies)
  \/ SubmitHttpErrorIn(LiveLatencies)
  \/ SubmitOkIn(LiveLatencies)
  \/ CheckTimeout
  \/ WaitInterval
  \/ PollErrorIn(LiveLatencies)
  \/ PollOkIn(LiveLatencies)
  \/ PollStillRunning
  \/ HandleCompletion
  \/ Catch

SpecLive == Init /\ [][NextLive]_vars /\ WF_vars(NextLive)

SpecCancel == Init /\ [][NextCancel]_vars

InitExtract == JobInit /\ ExtractInit /\ RunIdle /\ EventIdle /\ ToolIdle /\ LogIdle /\ IsoIdle
  /\ ClientIdle

NextExtract ==
  \/ AddItem
  \/ AddPart
  \/ Extract

SpecExtract == InitExtract /\ [][NextExtract]_vars

InitEvents == JobInit /\ ExtractIdle /\ RunIdle /\ EventIdle /\ ToolIdle /\ LogIdle /\ IsoIdle
  /\ ClientIdle

NextEvents ==
  \/ RunStatusPart
  \/ OutlinePart
  \/ SectionStatusPart
  \/ HeartbeatPart

SpecEvents == InitEvents /\ [][NextEvents]_vars

InitTool == JobInit /\ ExtractIdle /\ RunIdle /\ EventIdle /\ ToolIdle /\ LogIdle /\ IsoIdle
  /\ ClientIdle

NextTool ==
  \/ SetOpenAIApiKey
  \/ ToolStart
  \/ ToolKeyCheck
  \/ ToolJobReturns
  \/ ToolSaveFails
  \/ ToolFinish

SpecTool == InitTool /\ [][NextTool]_vars

\* requests to POST /api/chat, one after the other, while the tool is
\* invoked: the process-wide key is all they share
InitCred == JobInit /\ ExtractIdle /\ RunIdle /\ EventIdle /\ ToolIdle /\ LogIdle /\ IsoIdle
  /\ ClientIdle

NextCred ==
  \/ RequestArrives
  \/ Post
  \/ RequestOver
  \/ ToolStart
  \/ ToolKeyCheck
  \/ ToolJobReturns
  \/ ToolSaveFails
  \/ ToolFinish

SpecCred == InitCred /\ [][NextCred]_vars

InitIso == JobInit /\ ExtractIdle /\ RunIdle /\ EventIdle /\ ToolIdle /\ LogIdle /\ IsoIdle
  /\ ClientIdle

NextIso == RunInvokesTool

SpecIso == InitIso /\ [][NextIso]_vars

InitClient ==
  JobInit /\ ExtractIdle /\ RunIdle /\ EventIdle /\ ToolIdle /\ LogIdle /\ IsoIdle
  /\ ClientIdle

NextClient ==
  \/ InstallConsoleInterceptors
  \/ RestoreConsole
  \/ ConsoleCall
  \/ ClientLog
  \/ Flush

SpecClient == InitClient /\ [][NextClient]_vars

InitLog == JobInit /\ ExtractIdle /\ RunIdle /\ EventIdle /\ ToolIdle /\ LogIdle /\ IsoIdle
  /\ ClientIdle

NextLog ==
  \/ LogEventCall
  \/ LogCheckEnabled
  \/ LogMkdir
  \/ LogAppend
  \/ LogEcho
  \/ LogCaught

SpecLog == InitLog /\ [][NextLog]_vars

\* ---------------------------------------------------------------------------
\* Properties of the job life cycle
\* ---------------------------------------------------------------------------
Returned == pc = "done"

\* C1: when every submission call of a job failed (transport error or
\* non-2xx response), the job has issued exactly 3 submission calls and no
\* poll call, and it ended failed.
RetryCeiling ==
  (Returned /\ okSubmits = 0) =>
    (submits = 3 /\ polls = 0 /\ result.status = "failed")

RetryCeilingWitness ==
  /\ Returned
  /\ okSubmits = 0
  /\ submits = 3
  /\ Len(errors) = 3
  /\ \A i \in DOMAIN errors : errors[i].kind = "transport"

\* C2: once the service has reported 'failed' or 'cancelled' in attempt i,
\* the job is terminal (failed) and no submission call follows: the job has
\* made exactly i submissions (exactly one when it happened on the first).
RemoteFailureNeverRetried ==
  \A i \in DOMAIN errors :
    errors[i].kind = "remote" =>
      (Returned /\ result.status = "failed" /\ submits = i)

\* C3: once the poll loop of attempt i has detected the exceeded deadline,
\* the job is terminal with the timeout as its cause and neither a
\* submission call nor a poll call follows.
TimeoutNeverRetried ==
  \A i \in DOMAIN errors :
    errors[i].kind = "timeout" =>
      (Returned /\ result = FailedResult(TimeoutMessage) /\ submits = i)

\* C4: when the deadline has passed at the check that precedes a poll, the
\* job goes to TimedOut although the remote status is still queued or
\* in_progress, and it does so without any network call.
TimeoutPrecedence ==
  [][ (pc = "check" /\ InProgress(pollData) /\ now - pollStartTime > MAX_POLL_TIME_MS)
        => (thrown'.kind = "timeout" /\ submits' = submits /\ polls' = polls) ]_vars
  /\ [][ thrown.kind = "timeout"
        => (Returned' /\ result' = FailedResult(TimeoutMessage)
            /\ submits' = submits /\ polls' = polls) ]_vars

\* C5 as claimed: no poll request is issued later than 10 minutes after the
\* job's first submission (time 0).
PollWithinJobDeadline ==
  pc = "poll" => now <= MAX_POLL_TIME_MS

\* C5 as amended: the 10 minutes count from the arrival of the current
\* attempt's submission response and are checked before the 5 s wait, so no
\* poll request is issued later than pollStartTime + 10 minutes + 5 seconds.
PollWithinAttemptDeadline ==
  pc = "poll" => now <= pollStartTime + MAX_POLL_TIME_MS + POLL_INTERVAL_MS

PollWithinAttemptDeadlineWitness ==
  /\ pc = "poll"
  /\ pollCount > 1
  /\ now > pollStartTime + MAX_POLL_TIME_MS

\* C6: once an attempt i found status 'completed' without any text, the job
\* is terminal, failed with the 'no content returned' cause, and no
\* submission call follows.
ExtractionErrorNeverRetried ==
  \A i \in DOMAIN errors :
    errors[i].kind = "extraction" =>
      (Returned /\ result = FailedResult(NoContentMessage) /\ submits = i)

\* C7: a job that failed by exhausting the retry ceiling carries the
\* message of the error of its last attempt as its cause.
LastErrorIsCause ==
  (Returned /\ result.status = "failed") =>
    (Len(errors) = maxRetries /\ result.error = errors[maxRetries].message)

LastErrorIsCauseWitness ==
  /\ Returned
  /\ result.status = "failed"
  /\ Len(errors) = 3
  /\ errors[1].message # errors[3].message
  /\ errors[2].message # errors[3].message
  /\ result.error = errors[3].message

\* ---------------------------------------------------------------------------
\* Properties of the extraction
\* ---------------------------------------------------------------------------
HasTextPart(item) ==
  /\ item.type = "message"
  /\ "content" \in DOMAIN item
  /\ \E j \in DOMAIN item.content : IsTextPart(item.content[j])

\* the first part of type output_text or text of an item that has one
FirstTextPart(item) ==
  item.content[CHOOSE j \in DOMAIN item.content :
                 /\ IsTextPart(item.content[j])
                 /\ \A k \in 1..(j - 1) : ~IsTextPart(item.content[k])]

MessageItems(data) ==
  IF "output" \in DOMAIN data
    THEN { i \in DOMAIN data.output : data.output[i].type = "message" }
    ELSE {}

Least(S) == CHOOSE i \in S : \A k \in S : i <= k

\* C8 as claimed: the content is output_text when the field is present (not
\* empty), otherwise the text of the first text part of the first message
\* item of the output array, and a response with neither gives no content.
ExtractionOrder ==
  exPc \in {"extracted", "threw"} =>
    IF "output_text" \in DOMAIN exData /\ exData.output_text # ""
      THEN exPc = "extracted" /\ exContent = exData.output_text
      ELSE IF /\ MessageItems(exData) # {}
              /\ HasTextPart(exData.output[Least(MessageItems(exData))])
              /\ FirstTextPart(exData.output[Least(MessageItems(exData))]).text # ""
        THEN /\ exPc = "extracted"
             /\ exContent = FirstTextPart(exData.output[Least(MessageItems(exData))]).text
        ELSE exPc = "threw"

\* the message items whose first text part carries a non-empty text
YieldingItems(data) ==
  { i \in MessageItems(data) :
      HasTextPart(data.output[i]) /\ FirstTextPart(data.output[i]).text # "" }

\* C8 as amended: the content is output_text when that field is present and
\* not empty; otherwise it is the text of the first text part of the first
\* message item whose first text part is not empty; a response with neither
\* ends the attempt with the 'no content' error.
ExtractionOrderAmended ==
  exPc \in {"extracted", "threw"} =>
    IF "output_text" \in DOMAIN exData /\ exData.output_text # ""
      THEN exPc = "extracted" /\ exContent = exData.output_text
      ELSE IF YieldingItems(exData) # {}
        THEN /\ exPc = "extracted"
             /\ exContent = FirstTextPart(exData.output[Least(YieldingItems(exData))]).text
        ELSE exPc = "threw" /\ exContent = ""

ExtractionOrderWitness ==
  /\ exPc = "extracted"
  /\ "output_text" \notin DOMAIN exData
  /\ YieldingItems(exData) # {}
  /\ Least(MessageItems(exData)) # Least(YieldingItems(exData))
  /\ exContent = FirstTextPart(exData.output[Least(YieldingItems(exData))]).text

\* ---------------------------------------------------------------------------
\* Properties of the run status
\* ---------------------------------------------------------------------------
RunStatuses == srvRunStatus \cup (IF runStatus # NoRun THEN {runStatus} ELSE {})

\* C9: every RunStatus of the run, of the chat endpoint and of the page,
\* has 0 <= completedSections <= totalSections, and its totalSections is the
\* number of sections of the run's outline.
CompletionBounds ==
  \A st \in RunStatuses :
    /\ 0 <= st.completedSections
    /\ st.completedSections <= st.totalSections
    /\ st.totalSections = Cardinality(outline)

\* C10: completedSections counts the terminal jobs: at every moment of a
\* run it equals the number of jobs that reached done or error.
CompletionCounting ==
  runStatus # NoRun => runStatus.completedSections = Cardinality(TerminalJobs)

\* the jobs of the run that ended failed, and those that ended completed
FailedJobs == { s \in called : jobStatus[s] = "error" }

SucceededJobs == { s \in called : jobStatus[s] = "done" }

RunFinished == reqPc = "finished"

\* C11: when every job of a run ended failed, the terminal phase of the run
\* is 'error', never 'complete': neither the final RunStatus of the chat
\* endpoint nor the runStatus of the page after onFinish is 'complete'.
AllFailedIsError ==
  (RunFinished /\ called # {} /\ FailedJobs = called) =>
    /\ runStatus.phase = "error"
    /\ \A st \in srvRunStatus : st.phase # "complete"

\* C12: when all jobs of a run are terminal, at least one completed and at
\* least one failed, the terminal phase is 'complete' and completedSections
\* equals totalSections, on the page and in the endpoint's final RunStatus.
DegradedCompletion ==
  (RunFinished /\ SucceededJobs # {} /\ FailedJobs # {}) =>
    /\ runStatus.phase = "complete"
    /\ runStatus.completedSections = runStatus.totalSections
    /\ \E st \in srvRunStatus :
         st.phase = "complete" /\ st.completedSections = st.totalSections
    /\ \A st \in srvRunStatus : st.phase # "error"

DegradedCompletionWitness ==
  /\ RunFinished
  /\ SucceededJobs # {}
  /\ FailedJobs # {}
  /\ SucceededJobs \cup FailedJobs = called
  /\ runStatus.phase = "complete"

\* the order of the phases; 'error' is last and may follow any phase
PhaseRank(phase) ==
  CASE phase = "planning" -> 1
    [] phase = "dispatching" -> 2
    [] phase = "researching" -> 3
    [] phase = "synthesizing" -> 4
    [] phase = "complete" -> 5
    [] phase = "error" -> 6

TerminalPhase(phase) == phase \in {"complete", "error"}

\* C15: within one run the phase only moves forward in the order planning,
\* dispatching, researching, synthesizing, complete, or to error, and never
\* changes once it is complete or error; this for the runStatus of the page
\* and for the RunStatus parts the chat endpoint creates for its runId.
PhaseMonotonic ==
  [][ /\ (runStatus # NoRun /\ runStatus' # NoRun /\ runStatus'.runId = runStatus.runId) =>
           /\ PhaseRank(runStatus'.phase) >= PhaseRank(runStatus.phase)
           /\ TerminalPhase(runStatus.phase) => runStatus'.phase = runStatus.phase
      /\ \A new \in srvRunStatus' \ srvRunStatus : \A old \in srvRunStatus :
           new.runId = old.runId =>
             /\ PhaseRank(new.phase) >= PhaseRank(old.phase)
             /\ ~TerminalPhase(old.phase) ]_vars

\* a run whose page went planning, researching, complete over two tool calls
PhaseMonotonicWitness ==
  /\ RunFinished
  /\ Cardinality(received) >= 2
  /\ runStatus.phase = "complete"
  /\ \E st \in srvRunStatus : st.phase = "dispatching"
  /\ \E st \in srvRunStatus : st.phase = "complete"

\* ---------------------------------------------------------------------------
\* Properties of the section statuses and of the streaming helpers
\* ---------------------------------------------------------------------------
StatusRank(status) ==
  CASE status = "queued" -> 1
    [] status = "running" -> 2
    [] status = "synthesizing" -> 3
    [] status = "done" -> 4
    [] status = "error" -> 4

SameSection(a, b) == a.runId = b.runId /\ a.sectionId = b.sectionId

\* C13: for every (runId, sectionId) the SectionStatus values produced over
\* time, repeated invocations for the section included, follow the order
\* queued, running, synthesizing, done or end in error: no status is
\* followed by an earlier one and nothing follows done or error.
SectionStatusMonotonic ==
  \A i, j \in DOMAIN emitted :
    (i < j /\ SameSection(emitted[i], emitted[j])) =>
      /\ StatusRank(emitted[i].status) <= StatusRank(emitted[j].status)
      /\ emitted[i].status \notin {"done", "error"}

\* the log events that carry the SectionStatus of a failure with its cause
ErrorStatusLogged(runId, sectionId, cause) ==
  \E i \in DOMAIN toolLog :
    /\ "sectionStatus" \in DOMAIN toolLog[i].data
    /\ toolLog[i].data.sectionStatus.runId = runId
    /\ toolLog[i].data.sectionStatus.sectionId = sectionId
    /\ toolLog[i].data.sectionStatus.status = "error"
    /\ toolLog[i].data.sectionStatus.error = cause

\* C16: for every job that ended failed, a SectionStatus 'error' with the
\* cause of the failure is created for the section, and the status value
\* and the cause are in the event that reaches the log.
FailureNeverSuppressed ==
  (toolPc = "idle" /\ toolResult # NoResult /\ toolResult.status = "failed") =>
    /\ \E i \in DOMAIN emitted :
         /\ emitted[i].status = "error"
         /\ emitted[i].error = toolResult.error
         /\ emitted[i].sectionId = EffectiveSectionId(toolArgs)
    /\ ErrorStatusLogged(EffectiveRunId(toolArgs), EffectiveSectionId(toolArgs),
                         toolResult.error)

BothParts == evPc = "both"

\* C14: the key of a part depends on the type, the runId and, for a
\* section-status, the sectionId of its event only; two section-status
\* events with different sectionIds never have the same key, and the keys
\* of events of different types are never equal.
IdentityStability ==
  BothParts =>
    /\ ( /\ evA.data.type = evB.data.type
         /\ evA.data.runId = evB.data.runId
         /\ evA.data.type = "section-status" => evA.data.sectionId = evB.data.sectionId )
       => evA.id = evB.id
    /\ ( /\ evA.data.type = "section-status"
         /\ evB.data.type = "section-status"
         /\ evA.data.sectionId # evB.data.sectionId )
       => evA.id # evB.id
    /\ evA.data.type # evB.data.type => evA.id # evB.id

Parts == (IF evA # NoEvent THEN {evA} ELSE {}) \cup (IF evB # NoEvent THEN {evB} ELSE {})

\* C19: an empty section list, or one with two sections of the same
\* sectionId, is rejected before any Outline event is produced: every
\* outline produced has at least one section and pairwise distinct ids.
OutlineValidated ==
  \A part \in Parts :
    part.data.type = "outline" =>
      /\ Len(part.data.sections) >= 1
      /\ \A i, j \in DOMAIN part.data.sections :
           i # j => part.data.sections[i].id # part.data.sections[j].id

\* ---------------------------------------------------------------------------
\* Properties of the jobs of a run, of cancellation and of the backoff
\* ---------------------------------------------------------------------------

\* C17: the jobs of a run are independent: the failure of a job is
\* returned as a failed result, which makes its section 'error', and the
\* step in which a job ends changes the state of no sibling job; no job is
\* ever cancelled.
SiblingIsolation ==
  [][ \A s \in SectionNumbers :
        jobStatus'[s] # jobStatus[s] =>
          /\ \A t \in SectionNumbers \ {s} : jobStatus'[t] = jobStatus[t]
          /\ jobStatus'[s] \in {"running", "done", "error"} ]_vars

\* a job has failed while a sibling is still running
SiblingIsolationWitness ==
  \E s, t \in called : jobStatus[s] = "error" /\ jobStatus[t] = "running"

\* C18: once the cancellation of the run is signalled, the job issues no
\* further submission and no further poll.
CancellationObserved ==
  [][ cancelled => (submits' = submits /\ polls' = polls) ]_vars

\* C20: the wait applied for attempt n is 1 second * 2^(n-1) for every
\* attempt n from 1 up to the ceiling: 1 s, 2 s, 4 s for n = 1, 2, 3.
BackoffFormula ==
  \A n \in DOMAIN waits : waits[n] = 1000 * (2 ^ (n - 1))

\* C20, amended: no wait precedes attempt 1; the wait before attempt n is
\* 1 second * 2^(n-1) for n from 2 up to the ceiling (2 s, 4 s), the same in
\* every run, and one wait is applied at the head of each attempt started.
BackoffFormulaAmended ==
  /\ \A n \in DOMAIN waits :
       waits[n] = IF n = 1 THEN 0 ELSE 1000 * (2 ^ (n - 1))
  /\ Len(waits) <= maxRetries
  /\ Len(waits) = IF pc = "loop" THEN attempt - 1 ELSE attempt

BackoffFormulaWitness ==
  /\ Returned
  /\ waits = <<0, 2000, 4000>>

\* the backoff waits of the job, in order
BackoffWaits == SelectSeq(waits, LAMBDA w : w > 0)

AllAttemptsFailed == Returned /\ Len(errors) = maxRetries

KeysRead == keys # NoKeys

\* C23: a POST made while the OpenAI key or the Tavily key is not
\* configured is answered 500 with the names of the missing keys, starts
\* no stream and launches no research job.
MissingKeysRejected ==
  (KeysRead /\ (keys.openai = "" \/ keys.tavily = "")) =>
    /\ reqPc = "rejected"
    /\ response.status = 500
    /\ response.error = "Missing API keys"
    /\ (response.details.openai = "OPENAI_API_KEY not configured") <=> (keys.openai = "")
    /\ (response.details.tavily = "TAVILY_API_KEY not configured") <=> (keys.tavily = "")
    /\ called = {}
    /\ srvRunStatus = {}
    /\ \A s \in SectionNumbers : jobStatus[s] = "none"

\* a request rejected because the Tavily key alone is missing
MissingKeysRejectedWitness ==
  /\ reqPc = "rejected"
  /\ keys.openai # ""
  /\ keys.tavily = ""
  /\ response.status = 500

\* ---------------------------------------------------------------------------
\* Properties of the submissions and polls of a job
\* ---------------------------------------------------------------------------

\* C24: a transport error or a non-2xx response, on a poll as on a
\* submission, consumes one attempt: the attempt ends, the next one submits
\* a fresh external job, the last one returns failed; and the job never
\* issues more than maxRetries (3) submissions.
BoundedRetries ==
  /\ [](submits <= 3)
  /\ [][ (pc = "catch" /\ thrown.kind = "transport") =>
           IF attempt = maxRetries
             THEN pc' = "done" /\ result'.status = "failed"
             ELSE pc' = "loop" /\ attempt' = attempt + 1 /\ responseId' = "" ]_vars
  /\ [][ submits' # submits =>
           /\ submits' = submits + 1
           /\ submits' = attempt
           /\ responseId' # "" => responseId' = RespId(submits') ]_vars

\* a poll of the first attempt failed and the second attempt has submitted
BoundedRetriesWitness ==
  /\ Len(errors) >= 1
  /\ errors[1].message = PollErrorMessage(500)
  /\ okSubmits = 2
  /\ responseId = RespId(2)

\* C25: a poll is issued only when the submission of the current attempt
\* succeeded and the last status seen is 'queued' or 'in_progress'; the id
\* polled is the one the current attempt's submission returned; no poll
\* follows a terminal status.
PollPrecondition ==
  [][ polls' = polls + 1 =>
        /\ pc = "poll"
        /\ okSubmits >= 1
        /\ responseId # ""
        /\ responseId = RespId(submits)
        /\ submits = attempt
        /\ pollData.status \in {"queued", "in_progress"} ]_vars

\* polls were made in the second attempt
PollPreconditionWitness ==
  /\ attempt = 2
  /\ pc = "check"
  /\ pollCount >= 1
  /\ polls >= 1

RemoteErrors == SelectSeq(errors, LAMBDA e : e.kind = "remote")

\* C26: a job that saw the remote status 'failed' ends Failed, one that
\* saw 'cancelled' ends Cancelled, and the cause it returns is the remote
\* error message when there is one, else 'Research failed' or
\* 'Research cancelled'.
RemoteFailureCause ==
  (Returned /\ Len(RemoteErrors) > 0) =>
    /\ result.status \in {"failed", "cancelled"}
    /\ result.error = RemoteErrors[1].message
    /\ RemoteErrors[1].message = "Research cancelled" => result.status = "cancelled"

\* C28: within an attempt every poll is preceded by exactly one wait of the
\* poll interval of 5 s, the first poll after the submission included; the
\* interval does not depend on the attempt, and a backoff wait occurs only at
\* the head of an attempt, never between polls.
FixedPollInterval ==
  /\ [][ (pc' = "poll" /\ pc # "poll") => (pc = "wait" /\ now' = now + 5000) ]_vars
  /\ [][ pc = "wait" => (pc' = "poll" /\ now' = now + 5000) ]_vars
  /\ [][ polls' = polls + 1 => (pc = "poll" /\ pc' # "poll") ]_vars
  /\ [][ waits' # waits => (pc = "loop" /\ pc' = "submit") ]_vars

\* the job has just waited for a poll of its second attempt
FixedPollIntervalWitness ==
  /\ pc = "poll"
  /\ attempt = 2
  /\ polls >= 2

\* ---------------------------------------------------------------------------
\* Properties of the persistence of the reports
\* ---------------------------------------------------------------------------
CompletedJobs == SelectSeq(returnedJobs, LAMBDA res : res.status = "completed")

FailedJobResults == SelectSeq(returnedJobs, LAMBDA res : res.status = "failed")

DoneStatuses == SelectSeq(emitted, LAMBDA st : st.status = "done")

WrittenReports == SelectSeq(saved, LAMBDA rep : rep.written)

\* C27: saveMarkdownReport is invoked exactly once for each job that ended
\* completed, with the content of that job, and never for a job that ended
\* failed; the 'done' SectionStatus of a section is produced only after its
\* report was saved.
PersistenceHandOff ==
  /\ [](toolPc # "save" =>
          /\ Len(saved) = Len(CompletedJobs)
          /\ \A i \in DOMAIN saved : saved[i].content = CompletedJobs[i].content)
  /\ [](toolPc = "save" => Len(saved) = Len(CompletedJobs) - 1)
  /\ [](Len(DoneStatuses) = Len(WrittenReports))
  /\ [][ Len(emitted') > Len(emitted) /\ emitted'[Len(emitted')].status = "done" =>
           /\ Len(saved') = Len(saved) + 1
           /\ saved'[Len(saved')].written
           /\ saved'[Len(saved')].content = toolResult.content ]_vars

\* a failed job and a completed job whose report was saved
PersistenceHandOffWitness ==
  /\ toolPc = "idle"
  /\ Len(FailedJobResults) >= 1
  /\ Len(CompletedJobs) >= 1
  /\ Len(WrittenReports) >= 1

\* C29: when the PDF was asked for and its generation fails, for a job that
\* completed and whose report was saved, execute still produces the 'done'
\* status and returns the success without a PDF; the section does not
\* become 'error'.
PdfBestEffort ==
  ( /\ toolPc = "idle"
    /\ toolResult # NoResult
    /\ toolResult.status = "completed"
    /\ Len(saved) > 0
    /\ saved[Len(saved)].written ) =>
      /\ toolReturn.kind = "returned"
      /\ toolReturn.success
      /\ emitted[Len(emitted)].status = "done"
      /\ emitted[Len(emitted)].sectionId = EffectiveSectionId(toolArgs)
      /\ emitted[Len(emitted)].error = ""

\* the PDF was asked for and was not generated
PdfBestEffortWitness ==
  /\ toolPc = "idle"
  /\ toolArgs # NoArgs
  /\ toolArgs.generatePDF
  /\ toolReturn.kind = "returned"
  /\ toolReturn.success
  /\ ~toolReturn.pdf

\* ---------------------------------------------------------------------------
\* Properties of the server logger
\* ---------------------------------------------------------------------------

\* where executeDeepResearch goes on after the awaited call of logEvent:
\* past the await when the promise resolved; a rejection would be thrown at
\* the await, into the catch block from the try block, out of the function
\* from the head of the loop and from the catch block
AfterLog ==
  CASE logResult = "resolved" -> "continues"
    [] logResult = "rejected" /\ logArg.caller = "try" -> "attempt fails"
    [] logResult = "rejected" -> "raised"
    [] OTHER -> "awaits"

\* C30: logEvent never throws or rejects, whatever fails while the log
\* directory is made or the line is appended, and when logging is disabled:
\* every call resolves, so executeDeepResearch goes on past each of its
\* logging calls in the same way whether logging succeeds, fails or is off.
LoggingNeverBreaks ==
  /\ logResult # "rejected"
  /\ (logPc = "idle" /\ logCalls > 0) => (logResult = "resolved" /\ AfterLog = "continues")
  /\ Len(logFile) <= logCalls

\* a call from the catch block whose append failed has resolved
LoggingNeverBreaksWitness ==
  /\ logPc = "idle"
  /\ logArg.caller = "catch"
  /\ logResult = "resolved"
  /\ Len(logConsole) > 0
  /\ logConsole[Len(logConsole)] = "error"
  /\ logFile = << >>

\* ---------------------------------------------------------------------------
\* Termination of the job
\* ---------------------------------------------------------------------------

\* the most polls one attempt can make
MaxPollsPerAttempt == MAX_POLL_TIME_MS \div POLL_INTERVAL_MS + 1

\* C31: when every network call returns or fails, executeDeepResearch
\* reaches a terminal result; one attempt makes at most
\* MAX_POLL_TIME_MS / POLL_INTERVAL_MS + 1 polls, the job makes at most
\* maxRetries attempts, and the return after the retry loop ('All retry
\* attempts failed') is never taken.
Termination ==
  /\ <>(pc = "done")
  /\ [](pollCount <= MaxPollsPerAttempt)
  /\ [](attempt <= maxRetries /\ Len(waits) <= maxRetries)
  /\ [](result # FailedResult("All retry attempts failed"))

\* the service stalled the job in every attempt, each attempt polled as
\* often as an attempt can, and the job has returned
TerminationWitness ==
  /\ pc = "done"
  /\ result.status = "failed"
  /\ polls = maxRetries * MaxPollsPerAttempt

\* ---------------------------------------------------------------------------
\* Terminal status of every section
\* ---------------------------------------------------------------------------

RunningStatuses == SelectSeq(emitted, LAMBDA e : e.status = "running")

TerminalStatuses == SelectSeq(emitted, LAMBDA e : e.status \in {"done", "error"})

\* C32: every invocation of the deepResearch tool that produced the
\* 'running' SectionStatus produces exactly one terminal SectionStatus
\* ('done' or 'error') for the same runId and sectionId: once the invocation
\* is over, the last status created is the terminal one of its section and
\* there are as many terminal statuses as running ones.
EverySectionTerminates ==
  (toolPc = "idle" /\ invocations > 0) =>
    /\ Len(TerminalStatuses) = Len(RunningStatuses)
    /\ emitted[Len(emitted)].status \in {"done", "error"}
    /\ emitted[Len(emitted)].runId = EffectiveRunId(toolArgs)
    /\ emitted[Len(emitted)].sectionId = EffectiveSectionId(toolArgs)

\* ---------------------------------------------------------------------------
\* Credentials
\* ---------------------------------------------------------------------------

\* C33: no submission or poll request is sent while _openaiApiKey is unset;
\* an invocation of the tool in that state throws before executeDeepResearch
\* is called; and no request unsets a key that is set, also not one that is
\* answered 500 for a missing key.
NoCallWithoutCredentials ==
  /\ [](\A i \in DOMAIN apiCalls : apiCalls[i].authorization # "")
  /\ [][(toolPc = "keycheck" /\ toolPc' # "keycheck" /\ openaiApiKey = "") =>
           /\ toolReturn'.kind = "threw"
           /\ toolPc' = "idle"
           /\ apiCalls' = apiCalls]_vars
  /\ [][openaiApiKey # "" => openaiApiKey' = openaiApiKey]_vars

\* a job has sent its requests with the key, and a later request that
\* lacks the OpenAI key was answered 500 while the key stayed set
NoCallWithoutCredentialsWitness ==
  /\ Len(apiCalls) > 0
  /\ reqPc = "rejected"
  /\ keys.openai = ""
  /\ openaiApiKey # ""

\* ---------------------------------------------------------------------------
\* The dispatching phase
\* ---------------------------------------------------------------------------

\* C34: within one chat request the change to phase 'dispatching' is
\* produced at most once, on the first deepResearch tool call; later
\* deepResearch tool calls of the request do not produce it again.
DispatchingOnce ==
  Len(SelectSeq(phaseLog, LAMBDA p : p = "dispatching")) <= 1

\* ---------------------------------------------------------------------------
\* Isolation of the runs
\* ---------------------------------------------------------------------------

\* C35: the sections of two different runs never have the same identity
\* key, whatever parameters the two runs pass to the tool, the parameters
\* runId and sectionId left out included.
RunIsolation ==
  (isoParts[1] # NoEvent /\ isoParts[2] # NoEvent) => isoParts[1].id # isoParts[2].id

\* ---------------------------------------------------------------------------
\* Properties of the request loggers
\* ---------------------------------------------------------------------------

\* C36: for any interleaving of installConsoleInterceptors and
\* restoreConsole of the request loggers, once every logger that installed
\* has restored, the console methods are the native ones: no interceptor
\* remains installed.
ConsoleRoundTrip ==
  (\A l \in ClientLoggers : originalConsole[l] = Null) => console = Native

\* the payloads of logger l that hold the event at position i of its queue
PayloadsWith(l, i) ==
  { p \in DOMAIN delivered : delivered[p].id = l /\ i <= Len(delivered[p].events) }

\* C37: over any sequence of logging calls and flush calls on one request
\* logger, each queued event is sent to /api/dev-log in at most one flush
\* payload, and each flush adds exactly one summary event.
AtMostOnceDelivery ==
  \A l \in ClientLoggers :
    /\ \A i \in DOMAIN events[l] : Cardinality(PayloadsWith(l, i)) <= 1
    /\ Len(SelectSeq(events[l], LAMBDA e : e.category = "client.summary")) = flushes[l]

====
